---- MODULE Spec2Model ----
(***************************************************************************)
(* Model of src/zero/state_store.py: a StateStore per process on one       *)
(* shared sqlite file (tables `states` and `locks`), the six guarded state *)
(* transitions, the scoped Lock guard and the enumeration generators.      *)
(*                                                                         *)
(* sqlite3 (python, default isolation level) opens a transaction only in   *)
(* front of INSERT/UPDATE/DELETE; a SELECT outside a transaction runs in   *)
(* autocommit mode and holds no lock once its rows are fetched.  A write   *)
(* transaction (from its first INSERT/UPDATE/DELETE or BEGIN IMMEDIATE to  *)
(* its COMMIT) holds the database's write lock: no other connection writes *)
(* meanwhile and readers see the committed tables, so each transaction is  *)
(* one step on the committed tables `states` and `locks`.                  *)
(***************************************************************************)
EXTENDS Integers, Sequences, FiniteSets, TLC

\* ---------------------------------------------------------------- bounds
NumProcs ==
    2
MaxInode ==
    2
MaxRetries ==
    1
MaxDepth ==
    2
MaxGenerators ==
    1

Procs ==
    1..NumProcs
Inodes ==
    1..MaxInode

\* ------------------------------------------------------------- constants
CLEAN ==
    "CLEAN"
REMOTE ==
    "REMOTE"
DIRTY ==
    "DIRTY"
TODELETE ==
    "TODELETE"
None ==
    "None"

STATES ==
    {CLEAN, REMOTE, DIRTY, TODELETE}

IllegalTransitionException ==
    "IllegalTransitionException"
InodeLockedException ==
    "InodeLockedException"
GenericException ==
    "Exception"
AssertionError ==
    "AssertionError"
IntegrityError ==
    "IntegrityError"

Ops ==
    {"set_remote", "set_downloaded", "set_dirty", "set_clean",
     "set_todelete", "set_deleted"}

\* set_todelete given the predecessors of a first marking only
previous_states_first_marking(op) ==
    CASE op = "set_remote"     -> {CLEAN}
      [] op = "set_downloaded" -> {REMOTE}
      [] op = "set_dirty"      -> {CLEAN, DIRTY, TODELETE, None}
      [] op = "set_clean"      -> {DIRTY}
      [] op = "set_todelete"   -> {CLEAN, DIRTY}
      [] op = "set_deleted"    -> {TODELETE}

\* previous_states argument of each set_* method
previous_states(op) ==
    CASE op = "set_remote"     -> {CLEAN}
      [] op = "set_downloaded" -> {REMOTE}
      [] op = "set_dirty"      -> {CLEAN, DIRTY, TODELETE, None}
      [] op = "set_clean"      -> {DIRTY}
      [] op = "set_todelete"   -> {CLEAN, DIRTY, TODELETE}
      [] op = "set_deleted"    -> {TODELETE}

\* set_downloaded given the next state of set_remote
next_state_copied(op) ==
    CASE op = "set_remote"     -> REMOTE
      [] op = "set_downloaded" -> REMOTE
      [] op = "set_dirty"      -> DIRTY
      [] op = "set_clean"      -> CLEAN
      [] op = "set_todelete"   -> TODELETE
      [] op = "set_deleted"    -> None

\* next_state argument of each set_* method
next_state(op) ==
    CASE op = "set_remote"     -> REMOTE
      [] op = "set_downloaded" -> CLEAN
      [] op = "set_dirty"      -> DIRTY
      [] op = "set_clean"      -> CLEAN
      [] op = "set_todelete"   -> TODELETE
      [] op = "set_deleted"    -> None

\* ------------------------------------------------------------ SQL tables
\* a `states` table is a set of rows [inode, state]; a `locks` table is a
\* set of rows [inode, by], `by` recording the connection that inserted it.

\* SELECT state FROM states WHERE inode = ?  ... fetchone()
fetchone_state(tbl, inode) ==
    IF \E r \in tbl : r.inode = inode
    THEN (CHOOSE r \in tbl : r.inode = inode).state
    ELSE None

\* INSERT OR IGNORE INTO states (inode, state) VALUES (?, ?)
InsertOrIgnore(tbl, inode, state) ==
    IF \E r \in tbl : r.inode = inode
    THEN tbl
    ELSE tbl \cup {[inode |-> inode, state |-> state]}

\* an UPDATE without its WHERE clause
UpdateEveryInode(tbl, inode, state) ==
    {[r EXCEPT !.state = state] : r \in tbl}

\* UPDATE states SET state = ? WHERE inode = ?
UpdateState(tbl, inode, state) ==
    {IF r.inode = inode THEN [r EXCEPT !.state = state] ELSE r : r \in tbl}

\* the record is kept with an empty state instead of being deleted
MarkDeleted(tbl, inode) ==
    {IF r.inode = inode THEN [r EXCEPT !.state = None] ELSE r : r \in tbl}

\* a DELETE without its WHERE clause
DeleteEveryInode(tbl, inode) ==
    {}

\* DELETE from states WHERE inode = ?
DeleteState(tbl, inode) ==
    {r \in tbl : r.inode # inode}

\* a SELECT without its WHERE clause
SelectEveryInode(tbl, state) ==
    {r.inode : r \in tbl}

\* SELECT inode FROM states WHERE state = ?
SelectInodes(tbl, state) ==
    {r.inode : r \in {x \in tbl : x.state = state}}

\* a SELECT without its WHERE clause
is_locked_any_inode(tbl, inode) ==
    tbl # {}

\* SELECT * FROM locks WHERE inode = ?  ... fetchone() is not None
is_locked(tbl, inode) ==
    \E r \in tbl : r.inode = inode

\* INSERT INTO locks (inode) VALUES (?): `inode` is the primary key, the
\* statement fails with IntegrityError when a row with that key exists
lock_error(tbl, inode) ==
    IF \E r \in tbl : r.inode = inode THEN IntegrityError ELSE None

lock(tbl, inode, p) ==
    tbl \cup {[inode |-> inode, by |-> p]}

\* a DELETE without its WHERE clause
unlock_every_inode(tbl, inode) ==
    {}

\* a DELETE that matches no row
unlock_no_inode(tbl, inode) ==
    tbl

\* DELETE FROM locks WHERE inode = ?
unlock(tbl, inode) ==
    {r \in tbl : r.inode # inode}

\* ----------------------------------------------------------------- state
VARIABLES
    states,     \* committed rows of table `states`
    locks,      \* committed rows of table `locks`
    pc,         \* per process: position in the method it is running
    call,       \* per process: the set_* call between its check and its commit
    exc,        \* per process: the exception being raised, or None
    scopes,     \* per process: inodes of the `with Lock` blocks it is in
    acq,        \* per process: the Lock.__enter__ it is inside
    gen,        \* per process: the generator get_inodes_in_state returned
    hist        \* the completed set_* calls on one inode, once a client records them

vars ==
    <<states, locks, pc, call, exc, scopes, acq, gen, hist>>

NoCall ==
    [op |-> None, inode |-> 0]
NoAcq ==
    [inode |-> 0, max_retries |-> 0, counter |-> -1, attempts |-> 0, sleeps |-> 0]
NoGen ==
    [phase |-> "none", state |-> None, at_call |-> {}, entries |-> <<>>, out |-> <<>>]
NoHist ==
    [inode |-> 0, calls |-> <<>>]

\* StateStore.__init__ on a fresh file: both tables exist and are empty
Init ==
    /\ states = {}
    /\ locks = {}
    /\ pc = [p \in Procs |-> "idle"]
    /\ call = [p \in Procs |-> NoCall]
    /\ exc = [p \in Procs |-> None]
    /\ scopes = [p \in Procs |-> <<>>]
    /\ acq = [p \in Procs |-> NoAcq]
    /\ gen = [p \in Procs |-> NoGen]
    /\ hist = NoHist

\* ------------------------------------------------- the six transitions
\* the longest call sequence a client follows on one inode (set_remote,
\* set_downloaded, set_dirty, set_remote)
HistLen ==
    Len(<<"set_remote", "set_downloaded", "set_dirty", "set_remote">>)

\* the history after a set_*(inode) call ended with exception err (None:
\* it returned) and changed the table from tbl to tbl2: the first HistLen
\* calls on the recorded inode are kept, with the state read before and
\* after each call
Record(h, op, inode, err, tbl, tbl2) ==
    IF h.inode = inode /\ Len(h.calls) < HistLen
    THEN [h EXCEPT !.calls = Append(@, [op |-> op, err |-> err,
                                        before |-> fetchone_state(tbl, inode),
                                        after |-> fetchone_state(tbl2, inode)])]
    ELSE h

\* the exception _assert_inode_has_allowed_state raises for the fetched
\* row `result` (None: no row) and the allowed states, or None if it returns
allowed_state_error(result, prevs) ==
    IF result = None
    THEN (IF None \in prevs THEN None ELSE GenericException)
    ELSE (IF result \notin prevs THEN IllegalTransitionException ELSE None)

\* set_*(inode) up to the end of _assert_inode_has_allowed_state: the SELECT
\* runs outside any transaction and reads the committed table; an exception
\* leaves set_* at once
assert_inode_has_allowed_state(p, op, inode) ==
    /\ pc[p] = "idle"
    /\ LET result == fetchone_state(states, inode)
           err == allowed_state_error(result, previous_states(op))
       IN  /\ call' = [call EXCEPT ![p] =
                         IF err = None THEN [op |-> op, inode |-> inode] ELSE NoCall]
           /\ exc' = [exc EXCEPT ![p] = err]
           /\ pc' = [pc EXCEPT ![p] = IF err = None THEN "t_write" ELSE "raise"]
           /\ hist' = IF err = None THEN hist
                      ELSE Record(hist, op, inode, err, states, states)
    /\ UNCHANGED <<gen, states, locks, scopes, acq>>

\* _remove and the end of `with self.connection:`: the DELETE opens the
\* write transaction, leaving the with block commits it; set_* returns
remove(p) ==
    /\ pc[p] = "t_write"
    /\ next_state(call[p].op) = None
    /\ states' = DeleteState(states, call[p].inode)
    /\ pc' = [pc EXCEPT ![p] = "idle"]
    /\ call' = [call EXCEPT ![p] = NoCall]
    /\ hist' = Record(hist, call[p].op, call[p].inode, None, states, states')
    /\ UNCHANGED <<gen, locks, exc, scopes, acq>>

\* _upsert_state_on_inode and the end of `with self.connection:`: the
\* INSERT OR IGNORE opens the write transaction, the UPDATE follows,
\* leaving the with block commits both; set_* returns
upsert_state_on_inode(p) ==
    /\ pc[p] = "t_write"
    /\ next_state(call[p].op) # None
    /\ states' = UpdateState(InsertOrIgnore(states, call[p].inode, next_state(call[p].op)),
                             call[p].inode, next_state(call[p].op))
    /\ pc' = [pc EXCEPT ![p] = "idle"]
    /\ call' = [call EXCEPT ![p] = NoCall]
    /\ hist' = Record(hist, call[p].op, call[p].inode, None, states, states')
    /\ UNCHANGED <<gen, locks, exc, scopes, acq>>

\* ------------------------------------------------------------ Lock guard
\* nested guards that share the inode of the outermost one
Bottom(s) ==
    s[1]

Top(s) ==
    s[Len(s)]
Pop(s) ==
    SubSeq(s, 1, Len(s) - 1)

\* a loop that runs once more than range(max_retries)
range_has_next_inclusive(counter, max_retries) ==
    counter + 1 <= max_retries

\* `for counter in range(self.acquisition_max_retries)`: there is an
\* iteration after the one numbered counter (-1: before the loop)
range_has_next(counter, max_retries) ==
    counter + 1 < max_retries

\* Lock(state_store, inode, acquisition_max_retries).__enter__ is entered
Lock_enter(p, inode, n) ==
    /\ pc[p] = "idle"
    /\ Len(scopes[p]) < MaxDepth
    /\ acq' = [acq EXCEPT ![p] = [inode |-> inode, max_retries |-> n,
                                  counter |-> -1, attempts |-> 0, sleeps |-> 0]]
    /\ pc' = [pc EXCEPT ![p] = "l_try"]
    /\ UNCHANGED <<hist, gen, states, locks, call, exc, scopes>>

\* _try_locking (one BEGIN IMMEDIATE transaction) and the branch of
\* __enter__ that follows it: return (the with block is entered), next
\* iteration of the loop, or raise
try_locking(p) ==
    /\ pc[p] = "l_try"
    /\ LET a == acq[p]
           a1 == [a EXCEPT !.attempts = a.attempts + 1] IN
       IF ~is_locked(locks, a.inode)
       THEN IF lock_error(locks, a.inode) = None
            THEN /\ locks' = lock(locks, a.inode, p)
                 /\ scopes' = [scopes EXCEPT ![p] = Append(scopes[p], a.inode)]
                 /\ acq' = [acq EXCEPT ![p] = NoAcq]
                 /\ pc' = [pc EXCEPT ![p] = "idle"]
                 /\ exc' = exc
            ELSE /\ locks' = locks
                 /\ scopes' = scopes
                 /\ acq' = [acq EXCEPT ![p] = NoAcq]
                 /\ pc' = [pc EXCEPT ![p] = "raise"]
                 /\ exc' = [exc EXCEPT ![p] = lock_error(locks, a.inode)]
       ELSE /\ locks' = locks
            /\ scopes' = scopes
            /\ IF range_has_next(a.counter, a.max_retries)
               THEN /\ acq' = [acq EXCEPT ![p] = [a1 EXCEPT !.counter = a.counter + 1]]
                    /\ pc' = [pc EXCEPT ![p] = "l_sleep"]
                    /\ exc' = exc
               ELSE /\ acq' = [acq EXCEPT ![p] = NoAcq]
                    /\ pc' = [pc EXCEPT ![p] = "raise"]
                    /\ exc' = [exc EXCEPT ![p] = InodeLockedException]
    /\ UNCHANGED <<hist, gen, states, call>>

\* time.sleep(1.) at the head of a loop iteration
sleep(p) ==
    /\ pc[p] = "l_sleep"
    /\ acq' = [acq EXCEPT ![p].sleeps = @ + 1]
    /\ pc' = [pc EXCEPT ![p] = "l_try"]
    /\ UNCHANGED <<hist, gen, states, locks, call, exc, scopes>>

\* __exit__ of the innermost with block, reached by the end of its body
\* (pc idle) or by an exception leaving it (pc raise): one BEGIN IMMEDIATE
\* transaction; a failed assert replaces the exception in flight
Lock_exit(p) ==
    /\ pc[p] \in {"idle", "raise"}
    /\ scopes[p] # <<>>
    /\ scopes' = [scopes EXCEPT ![p] = Pop(scopes[p])]
    /\ IF is_locked(locks, Top(scopes[p]))
       THEN /\ locks' = unlock(locks, Top(scopes[p]))
            /\ UNCHANGED <<gen, pc, exc>>
       ELSE /\ locks' = locks
            /\ exc' = [exc EXCEPT ![p] = AssertionError]
            /\ pc' = [pc EXCEPT ![p] = "raise"]
    /\ UNCHANGED <<hist, gen, states, call, acq>>

\* the caller (inside the current with block, or at top level) handles the
\* exception raised by set_* or by Lock.__enter__
catch(p) ==
    /\ pc[p] = "raise"
    /\ pc' = [pc EXCEPT ![p] = "idle"]
    /\ exc' = [exc EXCEPT ![p] = None]
    /\ UNCHANGED <<hist, gen, states, locks, call, scopes, acq>>

\* ----------------------------------------------------------- enumeration
RECURSIVE fetchall(_)
\* cursor.fetchall() over a set of inodes: rows come in rowid (= inode) order
fetchall(S) ==
    IF S = {}
    THEN <<>>
    ELSE LET m == CHOOSE x \in S : \A y \in S : x <= y
         IN  <<m>> \o fetchall(S \ {m})

\* get_inodes_in_state(state) / get_dirty_inodes() / get_todelete_inodes()
\* is called: a generator object is returned, none of its body has run;
\* at_call records, until the body starts, the inodes in that state now
get_inodes_in_state(p, state) ==
    /\ pc[p] = "idle"
    /\ gen[p].phase = "none"
    /\ Cardinality({q \in Procs : gen[q].phase # "none"}) < MaxGenerators
    /\ gen' = [gen EXCEPT ![p] = [phase |-> "created", state |-> state,
                                  at_call |-> SelectInodes(states, state),
                                  entries |-> <<>>, out |-> <<>>]]
    /\ UNCHANGED <<hist, states, locks, pc, call, exc, scopes, acq>>

\* next() on the generator: the first one runs the body from its start
\* (the SELECT and fetchall), every one runs to the next yield or to the end
gen_next(p) ==
    /\ pc[p] = "idle"
    /\ gen[p].phase \in {"created", "running"}
    /\ LET g == gen[p]
           entries == IF g.phase = "created"
                      THEN fetchall(SelectInodes(states, g.state))
                      ELSE g.entries
       IN  gen' = [gen EXCEPT ![p] =
                     IF entries = <<>>
                     THEN [g EXCEPT !.phase = "done", !.at_call = {}, !.entries = <<>>]
                     ELSE [g EXCEPT !.phase = "running", !.at_call = {},
                                    !.entries = Tail(entries),
                                    !.out = Append(g.out, Head(entries))]]
    /\ UNCHANGED <<hist, states, locks, pc, call, exc, scopes, acq>>

\* the exhausted generator is dropped
gen_close(p) ==
    /\ gen[p].phase = "done"
    /\ gen' = [gen EXCEPT ![p] = NoGen]
    /\ UNCHANGED <<hist, states, locks, pc, call, exc, scopes, acq>>

\* --------------------------------------------------------- specification
\* transitions and lock guards of NumProcs processes on one store
Next ==
    \/ \E p \in Procs, op \in Ops, i \in Inodes : assert_inode_has_allowed_state(p, op, i)
    \/ \E p \in Procs : remove(p)
    \/ \E p \in Procs : upsert_state_on_inode(p)
    \/ \E p \in Procs, i \in Inodes, n \in 0..MaxRetries : Lock_enter(p, i, n)
    \/ \E p \in Procs : try_locking(p)
    \/ \E p \in Procs : sleep(p)
    \/ \E p \in Procs : Lock_exit(p)
    \/ \E p \in Procs : catch(p)

Spec ==
    Init /\ [][Next]_vars

\* transitions only
TransNext ==
    \/ \E p \in Procs, op \in Ops, i \in Inodes : assert_inode_has_allowed_state(p, op, i)
    \/ \E p \in Procs : remove(p)
    \/ \E p \in Procs : upsert_state_on_inode(p)
    \/ \E p \in Procs : catch(p)

TransSpec ==
    Init /\ [][TransNext]_vars

\* lock guards only
LockNext ==
    \/ \E p \in Procs, i \in Inodes, n \in 0..MaxRetries : Lock_enter(p, i, n)
    \/ \E p \in Procs : try_locking(p)
    \/ \E p \in Procs : sleep(p)
    \/ \E p \in Procs : Lock_exit(p)
    \/ \E p \in Procs : catch(p)

LockSpec ==
    Init /\ [][LockNext]_vars

\* lock guards that are not nested; a process inside __enter__ keeps
\* running (the scheduler does not starve it, a busy database answers
\* within the connection's timeout)
AcquireNext ==
    \/ \E p \in Procs, i \in Inodes, n \in 0..MaxRetries :
          scopes[p] = <<>> /\ Lock_enter(p, i, n)
    \/ \E p \in Procs : try_locking(p)
    \/ \E p \in Procs : sleep(p)
    \/ \E p \in Procs : Lock_exit(p)
    \/ \E p \in Procs : catch(p)

AcquireSpec ==
    /\ Init
    /\ [][AcquireNext]_vars
    /\ \A p \in Procs : WF_vars(try_locking(p)) /\ WF_vars(sleep(p))

\* transitions and enumerations
EnumNext ==
    \/ \E p \in Procs, op \in Ops, i \in Inodes : assert_inode_has_allowed_state(p, op, i)
    \/ \E p \in Procs : remove(p)
    \/ \E p \in Procs : upsert_state_on_inode(p)
    \/ \E p \in Procs : catch(p)
    \/ \E p \in Procs, s \in STATES : get_inodes_in_state(p, s)
    \/ \E p \in Procs : gen_next(p)
    \/ \E p \in Procs : gen_close(p)

EnumSpec ==
    Init /\ [][EnumNext]_vars

\* _unlock(inode) called on the store directly, outside any Lock, and
\* committed: the lock record of the inode, whoever inserted it, is deleted
unlock_directly(p, inode) ==
    /\ pc[p] = "idle"
    /\ locks' = unlock(locks, inode)
    /\ UNCHANGED <<hist, gen, states, pc, call, exc, scopes, acq>>

\* transitions and lock guards on a store whose lock table is also
\* modified from outside the guards
DirectNext ==
    \/ \E p \in Procs, op \in Ops, i \in Inodes : assert_inode_has_allowed_state(p, op, i)
    \/ \E p \in Procs : remove(p)
    \/ \E p \in Procs : upsert_state_on_inode(p)
    \/ \E p \in Procs, i \in Inodes, n \in 0..MaxRetries : Lock_enter(p, i, n)
    \/ \E p \in Procs : try_locking(p)
    \/ \E p \in Procs : sleep(p)
    \/ \E p \in Procs : Lock_exit(p)
    \/ \E p \in Procs : catch(p)
    \/ \E p \in Procs, i \in Inodes : unlock_directly(p, i)

DirectSpec ==
    Init /\ [][DirectNext]_vars

\* a client starts to record the calls on an inode (no call is running)
follow(inode) ==
    /\ hist = NoHist
    /\ \A q \in Procs : pc[q] = "idle"
    /\ hist' = [inode |-> inode, calls |-> <<>>]
    /\ UNCHANGED <<states, locks, pc, call, exc, scopes, acq, gen>>

\* a set_* call that starts when no other call is running (the client
\* stops once it has recorded HistLen calls)
call_in_sequence(p, op, inode) ==
    /\ \A q \in Procs : pc[q] = "idle"
    /\ Len(hist.calls) < HistLen
    /\ assert_inode_has_allowed_state(p, op, inode)

\* transitions called one after the other (by any of the processes)
SeqNext ==
    \/ \E p \in Procs, op \in Ops, i \in Inodes : call_in_sequence(p, op, i)
    \/ \E p \in Procs : remove(p)
    \/ \E p \in Procs : upsert_state_on_inode(p)
    \/ \E p \in Procs : catch(p)
    \/ \E i \in Inodes : follow(i)

SeqSpec ==
    Init /\ [][SeqNext]_vars

\* ================================================================ claims
\* the with blocks (process, nesting level) that are inside a Lock on inode
Holders(inode) ==
    {h \in Procs \X (1..MaxDepth) :
        h[2] <= Len(scopes[h[1]]) /\ scopes[h[1]][h[2]] = inode}

\* process p performs one _try_locking in this step
Attempt(p) ==
    pc[p] = "l_try" /\ pc'[p] # "l_try"

\* ... and __enter__ returns: p is inside the with block
Acquired(p) ==
    Attempt(p) /\ scopes'[p] = Append(scopes[p], acq[p].inode)

\* the lock record process p inserted for an inode
LockRecord(p, inode) ==
    [inode |-> inode, by |-> p]

\* process p leaves its innermost with block in this step
ScopeExited(p) ==
    Len(scopes'[p]) < Len(scopes[p])

\* process p is inside Lock.__enter__
Acquiring(p) ==
    pc[p] \in {"l_try", "l_sleep"}

\* C1: lock mutual exclusion.  At any time at most one guard is inside the
\* with block of an inode; an acquisition attempt on an inode succeeds
\* exactly when no guard holds it (never while a holder, the attempting
\* process included, has not yet released).
C1_MutualExclusion ==
    /\ [](\A i \in Inodes : Cardinality(Holders(i)) <= 1)
    /\ [][\A p \in Procs : Attempt(p) =>
            (Acquired(p) <=> Holders(acq[p].inode) = {})]_vars

\* two acquisitions of one inode: one process is inside the block, the
\* first attempt of the other has failed and it waits for its retry
C1_Witness ==
    \E p, q \in Procs : \E i \in Inodes :
        /\ p # q
        /\ Holders(i) = {<<p, 1>>}
        /\ pc[q] = "l_sleep" /\ acq[q].inode = i /\ acq[q].attempts = 1

\* C6: release runs exactly once per acquired guard, at the exit of its
\* with block, however the block is left.  While a process is inside a
\* block the record it inserted exists; the step that leaves the block (at
\* the end of the body or with an exception in flight) deletes exactly
\* that record; and no record is deleted by any other step.
C6_ReleaseAtExit ==
    /\ [](\A p \in Procs : \A k \in 1..Len(scopes[p]) :
            LockRecord(p, scopes[p][k]) \in locks)
    /\ [][/\ \A p \in Procs : ScopeExited(p) =>
                /\ scopes'[p] = Pop(scopes[p])
                /\ locks' = locks \ {LockRecord(p, Top(scopes[p]))}
                /\ locks' # locks
           /\ \A r \in locks \ locks' :
                ScopeExited(r.by) /\ r.inode = Top(scopes[r.by])
         ]_vars

\* an exception (a failed acquisition) is in flight in a process that has
\* left its with blocks, and no lock record is left
C6_Witness ==
    \E p \in Procs :
        /\ pc[p] = "raise" /\ exc[p] = InodeLockedException
        /\ scopes[p] = <<>>
        /\ locks = {}
        /\ \A q \in Procs \ {p} : scopes[q] = <<>> /\ pc[q] = "idle"

\* C7: an acquisition with max_retries = n makes at most n+1 attempts and
\* n sleeps, one sleep between a failed attempt and the next one; an
\* attempt succeeds iff it finds no lock record and then __enter__
\* returns; InodeLockedException is raised exactly by the attempt number
\* n+1 that finds the inode locked, after n sleeps (n = 0: by the first
\* attempt, without sleep); and every acquisition ends.
C7_BoundedAcquisition ==
    /\ [](\A p \in Procs : Acquiring(p) =>
            /\ acq[p].attempts <= acq[p].max_retries
            /\ pc[p] = "l_try" => acq[p].sleeps = acq[p].attempts
            /\ pc[p] = "l_sleep" => acq[p].sleeps = acq[p].attempts - 1)
    /\ [][\A p \in Procs : Attempt(p) =>
            /\ Acquired(p) <=> ~is_locked(locks, acq[p].inode)
            /\ pc'[p] = "raise" <=>
                  (is_locked(locks, acq[p].inode) /\ acq[p].attempts = acq[p].max_retries)
            /\ pc'[p] = "raise" =>
                  (exc'[p] = InodeLockedException /\ acq[p].sleeps = acq[p].max_retries)
            /\ pc'[p] = "l_sleep" <=>
                  (is_locked(locks, acq[p].inode) /\ acq[p].attempts < acq[p].max_retries)
            /\ pc'[p] = "l_sleep" => acq'[p].attempts = acq[p].attempts + 1
            /\ pc'[p] \in {"idle", "l_sleep", "raise"}
         ]_vars
    /\ \A p \in Procs : Acquiring(p) ~> ~Acquiring(p)

\* an acquisition with one retry has made one attempt and slept once; the
\* inode is still locked, its second and last attempt is due
C7_Witness ==
    \E p \in Procs :
        /\ pc[p] = "l_try" /\ is_locked(locks, acq[p].inode)
        /\ acq[p].max_retries = 1 /\ acq[p].attempts = 1 /\ acq[p].sleeps = 1

\* ---- the transition table as the specification states it
ABSENT ==
    None

C3_Predecessors(op) ==
    CASE op = "set_remote"     -> {"CLEAN"}
      [] op = "set_downloaded" -> {"REMOTE"}
      [] op = "set_dirty"      -> {"CLEAN", "DIRTY", "TODELETE", ABSENT}
      [] op = "set_clean"      -> {"DIRTY"}
      [] op = "set_todelete"   -> {"CLEAN", "DIRTY", "TODELETE"}
      [] op = "set_deleted"    -> {"TODELETE"}

C3_NewState(op) ==
    CASE op = "set_remote"     -> "REMOTE"
      [] op = "set_downloaded" -> "CLEAN"
      [] op = "set_dirty"      -> "DIRTY"
      [] op = "set_clean"      -> "CLEAN"
      [] op = "set_todelete"   -> "TODELETE"
      [] op = "set_deleted"    -> ABSENT

\* the state labels a table holds for an inode ({}: no record)
Labels(tbl, inode) ==
    {r.state : r \in {x \in tbl : x.inode = inode}}

\* the state of an inode whose labels are ls
StateOf(ls) ==
    IF ls = {} THEN ABSENT ELSE CHOOSE l \in ls : TRUE

\* the labels an inode has after a transition into state st
LabelsIn(st) ==
    IF st = ABSENT THEN {} ELSE {st}

\* the predecessor check of process p's set_* call rejects it in this step
Rejected(p) ==
    pc[p] = "idle" /\ pc'[p] = "raise"

\* process p's set_* call writes and commits in this step
Committed(p) ==
    pc[p] = "t_write" /\ pc'[p] = "idle"

\* C2: concurrent transition calls on one inode are serialized: a call that
\* has read its predecessor state writes on the basis of that state, i.e.
\* until it commits, its predecessor check still passes on the committed
\* state of the inode (no other call has changed it to a state the call
\* is not allowed from).
C2_Serialized ==
    \A p \in Procs : pc[p] = "t_write" =>
        allowed_state_error(fetchone_state(states, call[p].inode),
                            previous_states(call[p].op)) = None

\* C3: a set_* call passes its check iff the state of the inode at its
\* read is one of the predecessors of the operation in the specification's
\* table and is rejected otherwise, and when it commits the inode has
\* exactly the operation's new state (no record for set_deleted).
C3_TransitionTable ==
    [][/\ \A p \in Procs, op \in Ops, i \in Inodes :
            assert_inode_has_allowed_state(p, op, i) =>
                /\ Cardinality(Labels(states, i)) <= 1
                /\ pc'[p] = "t_write" <=> StateOf(Labels(states, i)) \in C3_Predecessors(op)
                /\ pc'[p] = "raise" <=> StateOf(Labels(states, i)) \notin C3_Predecessors(op)
                /\ states' = states
       /\ \A p \in Procs : Committed(p) =>
            Labels(states', call[p].inode) = LabelsIn(C3_NewState(call[p].op))
      ]_vars

\* a set_remote call has turned the only record into REMOTE while another
\* process's call has been rejected with IllegalTransitionException
C3_Witness ==
    \E p, q \in Procs :
        /\ p # q
        /\ pc[p] = "raise" /\ exc[p] = IllegalTransitionException
        /\ pc[q] = "idle"
        /\ \E i \in Inodes : states = {[inode |-> i, state |-> REMOTE]}

\* C4: a rejected set_* call changes neither table, and the committed
\* `states` table only ever changes by the commit of one call, from the
\* table as it was to the table with that inode's record fully updated
\* (every other inode's record untouched, the lock table untouched).
C4_NoPartialUpdate ==
    [][/\ \A p \in Procs : Rejected(p) => (states' = states /\ locks' = locks)
       /\ states' # states =>
            \E p \in Procs :
                /\ Committed(p)
                /\ locks' = locks
                /\ states' = {r \in states : r.inode # call[p].inode} \cup
                       {[inode |-> call[p].inode, state |-> l] :
                            l \in LabelsIn(C3_NewState(call[p].op))}
      ]_vars

\* a call has been rejected while every inode has a record and a lock is
\* held
C4_Witness ==
    \E p \in Procs :
        /\ pc[p] = "raise" /\ exc[p] = IllegalTransitionException
        /\ Cardinality(states) = MaxInode
        /\ locks # {}

\* C5: every rejected set_* call raises IllegalTransitionException, also
\* when the inode has no record.
C5_IllegalTransitionKind ==
    [][\A p \in Procs : Rejected(p) => exc'[p] = IllegalTransitionException]_vars

\* the inodes of a sequence of fetched entries
Range(seq) ==
    {seq[k] : k \in 1..Len(seq)}

\* C8: the sequence get_inodes_in_state(state) returns holds exactly the
\* inodes that were in that state when the method was called, each once.
C8_ExactAtCallTime ==
    [][\A p \in Procs :
        (gen[p].phase = "created" /\ gen'[p].phase # "created") =>
            /\ Range(gen'[p].out \o gen'[p].entries) = gen[p].at_call
            /\ Len(gen'[p].out \o gen'[p].entries) = Cardinality(gen[p].at_call)
      ]_vars

\* C9: when set_deleted commits, the inode has no record and is in no
\* get_inodes_in_state result, every other record being as before; and a
\* call on an inode without record behaves as on a never-tracked one:
\* set_dirty passes its check and commits DIRTY, every other set_* fails.
C9_DeletedIsAbsent ==
    [][/\ \A p \in Procs : (Committed(p) /\ call[p].op = "set_deleted") =>
              /\ \A r \in states' : r.inode # call[p].inode
              /\ \A s \in STATES \cup {None} : call[p].inode \notin SelectInodes(states', s)
              /\ states' = {r \in states : r.inode # call[p].inode}
       /\ \A p \in Procs, op \in Ops, i \in Inodes :
            (assert_inode_has_allowed_state(p, op, i) /\ Labels(states, i) = {}) =>
              /\ pc'[p] = "t_write" <=> op = "set_dirty"
              /\ pc'[p] = "raise" <=> op # "set_dirty"
       /\ \A p \in Procs : (Committed(p) /\ call[p].op = "set_dirty") =>
              Labels(states', call[p].inode) = {"DIRTY"}
      ]_vars

\* a set_deleted call of p has passed its check; since then the other
\* process has deleted that record (the inode has none now, another inode
\* has one) and its next call, on the inode without record, was rejected
C9_Witness ==
    \E p, q \in Procs :
        /\ p # q
        /\ pc[p] = "t_write" /\ call[p].op = "set_deleted"
        /\ Labels(states, call[p].inode) = {}
        /\ Cardinality(states) = MaxInode - 1
        /\ pc[q] = "raise" /\ exc[q] = GenericException

\* C10: set_dirty and set_todelete are idempotent: the commit of either
\* leaves the inode in the operation's own new state; a call of the same
\* operation that finds the inode in that state passes its check; and when
\* it commits with the inode still in that state the table is unchanged.
C10_Idempotent ==
    [][/\ \A p \in Procs, op \in {"set_dirty", "set_todelete"}, i \in Inodes :
            (assert_inode_has_allowed_state(p, op, i)
                /\ Labels(states, i) = {C3_NewState(op)}) =>
              pc'[p] = "t_write"
       /\ \A p \in Procs : (Committed(p) /\ call[p].op \in {"set_dirty", "set_todelete"}) =>
              /\ Labels(states', call[p].inode) = {C3_NewState(call[p].op)}
              /\ Labels(states, call[p].inode) = {C3_NewState(call[p].op)} => states' = states
      ]_vars

\* a set_todelete call on an inode that is TODELETE has passed its check
\* (no other call is running)
C10_Witness ==
    \E p \in Procs :
        /\ pc[p] = "t_write" /\ call[p].op = "set_todelete"
        /\ Labels(states, call[p].inode) = {TODELETE}
        /\ \A q \in Procs \ {p} : pc[q] = "idle"

\* the k-th recorded call was op
Called(k, op) ==
    Len(hist.calls) >= k /\ hist.calls[k].op = op

\* the k-th recorded call returned and left the inode in state st
Succeeded(k, st) ==
    hist.calls[k].err = None /\ hist.calls[k].after = st

\* the k-th recorded call raised err and left the inode in state st
Failed(k, err, st) ==
    hist.calls[k].err = err /\ hist.calls[k].before = st /\ hist.calls[k].after = st

\* the sequence set_remote, set_downloaded, set_dirty, set_remote on an
\* inode that is CLEAN: REMOTE, CLEAN, DIRTY, then IllegalTransitionException
\* with the inode still DIRTY
C11_EndToEnd ==
    (Called(1, "set_remote") /\ hist.calls[1].before = CLEAN) =>
        /\ Succeeded(1, REMOTE)
        /\ Called(2, "set_downloaded") =>
            /\ Succeeded(2, CLEAN)
            /\ Called(3, "set_dirty") =>
                /\ Succeeded(3, DIRTY)
                /\ Called(4, "set_remote") =>
                      Failed(4, IllegalTransitionException, DIRTY)

\* C11 as stated: on every inode (whatever its state), set_dirty followed
\* by set_clean leaves the inode CLEAN; and the sequence set_remote,
\* set_downloaded, set_dirty, set_remote on a CLEAN inode runs as above.
C11_DirtyThenClean ==
    /\ (Called(1, "set_dirty") /\ Called(2, "set_clean")) => Succeeded(2, CLEAN)
    /\ C11_EndToEnd

\* C11 amended: on every inode that is not REMOTE (CLEAN, DIRTY, TODELETE
\* or without record), set_dirty followed by set_clean succeeds twice and
\* leaves the inode CLEAN; on a REMOTE inode set_dirty raises
\* IllegalTransitionException and the inode stays REMOTE; and the sequence
\* set_remote, set_downloaded, set_dirty, set_remote on a CLEAN inode runs
\* as above.
C11_DirtyThenCleanUnlessRemote ==
    /\ (Called(1, "set_dirty") /\ hist.calls[1].before # REMOTE) =>
          /\ Succeeded(1, DIRTY)
          /\ Called(2, "set_clean") => Succeeded(2, CLEAN)
    /\ (Called(1, "set_dirty") /\ hist.calls[1].before = REMOTE) =>
          Failed(1, IllegalTransitionException, REMOTE)
    /\ C11_EndToEnd

\* the four calls of the end-to-end sequence have been made on an inode
\* that was CLEAN, the last one has failed
C11_Witness ==
    /\ Called(1, "set_remote") /\ hist.calls[1].before = CLEAN
    /\ Called(2, "set_downloaded")
    /\ Called(3, "set_dirty")
    /\ Called(4, "set_remote") /\ hist.calls[4].err # None
    /\ fetchone_state(states, hist.inode) = DIRTY

\* C12: release checks and deletes in one transaction: the step that
\* leaves a with block finds the lock record of its inode and deletes it,
\* or finds none and then raises AssertionError (the block is never left
\* without an exception in that case) and changes neither the lock table
\* nor the state table.
C12_ReleaseAsserts ==
    [][\A p \in Procs : ScopeExited(p) =>
          IF \E r \in locks : r.inode = Top(scopes[p])
          THEN /\ locks' = {r \in locks : r.inode # Top(scopes[p])}
               /\ pc'[p] = pc[p] /\ exc'[p] = exc[p]
               /\ states' = states
          ELSE /\ pc'[p] = "raise" /\ exc'[p] = AssertionError
               /\ locks' = locks
               /\ states' = states
      ]_vars

\* a release has found no record of its inode and raised AssertionError,
\* while the state table has a record and the lock table holds the record
\* of another inode
C12_Witness ==
    \E p \in Procs :
        /\ pc[p] = "raise" /\ exc[p] = AssertionError
        /\ states # {}
        /\ locks # {}

\* the whole sequence of a generator: what it has yielded and what it
\* still holds
Sequence(g) ==
    g.out \o g.entries

\* C13: an enumeration is one snapshot.  The first next() reads the table
\* once: the sequence is then the inodes that are in the asked state in
\* the committed table of that moment; from then on no step of any process
\* changes the sequence (what is yielded next is what was read); and the
\* sequence is finite and holds each inode at most once.
C13_Snapshot ==
    /\ [](\A p \in Procs :
            /\ Len(Sequence(gen[p])) <= MaxInode
            /\ \A k, l \in 1..Len(Sequence(gen[p])) :
                  Sequence(gen[p])[k] = Sequence(gen[p])[l] => k = l)
    /\ [][\A p \in Procs :
            /\ (gen[p].phase = "created" /\ gen'[p].phase # "created") =>
                  Range(Sequence(gen'[p])) =
                      {i \in Inodes : [inode |-> i, state |-> gen[p].state] \in states}
            /\ (gen[p].phase = "running" /\ gen'[p].phase # "none") =>
                  /\ Sequence(gen'[p]) = Sequence(gen[p])
                  /\ Len(gen'[p].out) <= Len(gen[p].out) + 1
      ]_vars

\* a generator has yielded its first inode and still holds an inode that
\* a transition committed since then has moved out of the asked state
C13_Witness ==
    \E p \in Procs :
        /\ gen[p].phase = "running"
        /\ gen[p].out # <<>>
        /\ \E i \in Range(gen[p].entries) : fetchone_state(states, i) # gen[p].state

\* the records a table holds for the inodes other than inode
Others(tbl, inode) ==
    {r \in tbl : r.inode # inode}

\* C14: state and lock are orthogonal.  A set_* call, rejected or
\* committed, leaves the lock table and the records of every other inode
\* unchanged; the steps of a Lock (attempt, sleep, release) and every
\* change of the lock table leave the state table unchanged; and whether a
\* call passes its check, and the state it commits, depend on the state of
\* its inode alone, whatever lock records exist and whoever holds them.
C14_Orthogonal ==
    [][/\ \A p \in Procs, op \in Ops, i \in Inodes :
            assert_inode_has_allowed_state(p, op, i) =>
                /\ locks' = locks
                /\ states' = states
                /\ pc'[p] = "t_write" <=> StateOf(Labels(states, i)) \in C3_Predecessors(op)
       /\ \A p \in Procs : Committed(p) =>
                /\ locks' = locks
                /\ Others(states', call[p].inode) = Others(states, call[p].inode)
                /\ Labels(states', call[p].inode) = LabelsIn(C3_NewState(call[p].op))
       /\ \A p \in Procs : (acq'[p] # acq[p] \/ scopes'[p] # scopes[p]) =>
                states' = states
       /\ locks' # locks => states' = states
      ]_vars

\* a set_* call on an inode has passed its check while another process
\* holds the lock of that inode, and another inode has a state record
C14_Witness ==
    \E p, q \in Procs :
        /\ p # q
        /\ pc[p] = "t_write"
        /\ LockRecord(q, call[p].inode) \in locks
        /\ Others(states, call[p].inode) # {}

\* C15: in every reachable state there is at most one state record per
\* inode, every stored state is CLEAN, REMOTE, DIRTY or TODELETE (no record
\* stores the absence of a state), and there is at most one lock record
\* per inode.
C15_TableInvariant ==
    /\ \A r1, r2 \in states : r1.inode = r2.inode => r1 = r2
    /\ \A r \in states : r.state \in {"CLEAN", "REMOTE", "DIRTY", "TODELETE"}
    /\ \A r \in states : r.inode \in Inodes
    /\ \A r1, r2 \in locks : r1.inode = r2.inode => r1 = r2

\* every inode has a state record and a lock record, one process holds
\* nested locks, and a call on an inode without record has been rejected
C15_Witness ==
    /\ Cardinality(states) = MaxInode
    /\ Cardinality(locks) = MaxInode
    /\ \E p \in Procs : Len(scopes[p]) = MaxDepth
    /\ \E p \in Procs : pc[p] = "raise" /\ exc[p] = GenericException

\* the exception of a whole set_*(inode) call on table tbl (None: returns)
Outcome(tbl, op, inode) ==
    allowed_state_error(fetchone_state(tbl, inode), previous_states(op))

\* the table a set_*(inode) call that passed its check commits on tbl
Written(tbl, op, inode) ==
    IF next_state(op) = None
    THEN DeleteState(tbl, inode)
    ELSE UpdateState(InsertOrIgnore(tbl, inode, next_state(op)), inode, next_state(op))

\* the table after a whole set_*(inode) call on table tbl
Applied(tbl, op, inode) ==
    IF Outcome(tbl, op, inode) = None THEN Written(tbl, op, inode) ELSE tbl

\* C16: operations on different inodes are independent.  On every
\* reachable table two calls on inodes i # j give, in either order, the
\* same two outcomes and the same final table; the steps of the calls are
\* those of Outcome and Written, and the commit of a call on j changes
\* neither the record of i nor the outcome of the check of a call on i
\* that has not yet written, so every interleaving of the two calls gives
\* the result of the serial orders; and an acquisition attempt on i fails
\* only when a lock record of i itself exists.
C16_Independent ==
    /\ [](\A i, j \in Inodes : \A op1, op2 \in Ops : i # j =>
            /\ Outcome(Applied(states, op2, j), op1, i) = Outcome(states, op1, i)
            /\ Outcome(Applied(states, op1, i), op2, j) = Outcome(states, op2, j)
            /\ Applied(Applied(states, op1, i), op2, j) =
                  Applied(Applied(states, op2, j), op1, i))
    /\ [][/\ \A p \in Procs, op \in Ops, i \in Inodes :
               assert_inode_has_allowed_state(p, op, i) =>
                   /\ exc'[p] = Outcome(states, op, i)
                   /\ pc'[p] = "t_write" <=> Outcome(states, op, i) = None
                   /\ states' = states
          /\ \A p \in Procs : Committed(p) =>
                   /\ states' = Written(states, call[p].op, call[p].inode)
                   /\ \A i \in Inodes \ {call[p].inode} :
                         Labels(states', i) = Labels(states, i)
                   /\ \A q \in Procs :
                         (pc[q] = "t_write" /\ call[q].inode # call[p].inode) =>
                             Outcome(states', call[q].op, call[q].inode) =
                                 Outcome(states, call[q].op, call[q].inode)
          /\ \A p \in Procs : (Attempt(p) /\ ~Acquired(p)) =>
                   \E r \in locks : r.inode = acq[p].inode
        ]_vars

\* two calls on different inodes have both passed their checks and wait
\* to write, each process holding the lock of its own inode (acquired
\* while the other inode was locked)
C16_Witness ==
    \E p, q \in Procs :
        /\ pc[p] = "t_write" /\ pc[q] = "t_write"
        /\ call[p].inode # call[q].inode
        /\ LockRecord(p, call[p].inode) \in locks
        /\ LockRecord(q, call[q].inode) \in locks
        /\ states # {}

\* the acquisition of process p fails in this step
AcquisitionFailed(p) ==
    Attempt(p) /\ pc'[p] = "raise"

\* C17: a failed acquisition raises InodeLockedException without entering
\* the with block (so no release runs for it) and without changing the
\* lock table: the record of the holder is still there; every process
\* has exactly the records of the blocks it is inside; and a record is
\* deleted only by the process that inserted it, leaving the block that
\* acquired it.
C17_FailedAcquisition ==
    /\ [](\A p \in Procs :
            {r \in locks : r.by = p} =
                {LockRecord(p, scopes[p][k]) : k \in 1..Len(scopes[p])})
    /\ [][/\ \A p \in Procs : AcquisitionFailed(p) =>
                /\ exc'[p] = InodeLockedException
                /\ scopes'[p] = scopes[p]
                /\ locks' = locks
                /\ \E r \in locks' : r.inode = acq[p].inode
          /\ \A r \in locks \ locks' :
                /\ Len(scopes'[r.by]) = Len(scopes[r.by]) - 1
                /\ scopes[r.by][Len(scopes[r.by])] = r.inode
                /\ \A p \in Procs \ {r.by} : scopes'[p] = scopes[p]
        ]_vars

\* the acquisition of a process that is in no with block has failed; the
\* other process still holds the only lock record
C17_Witness ==
    \E p, q \in Procs : \E i \in Inodes :
        /\ p # q
        /\ pc[p] = "raise" /\ exc[p] = InodeLockedException
        /\ scopes[p] = <<>>
        /\ locks = {LockRecord(q, i)}
        /\ scopes[q] = <<i>>

\* C18: when only Lock guards modify the lock table, the assertion of
\* __exit__ holds at every release: each step that leaves a with block
\* finds the lock record of its inode, and no process ever raises
\* AssertionError.
C18_AssertionHolds ==
    /\ [](\A p \in Procs : exc[p] # AssertionError)
    /\ [][\A p \in Procs : ScopeExited(p) =>
            /\ \E r \in locks : r.inode = scopes[p][Len(scopes[p])]
            /\ pc'[p] = pc[p]
            /\ exc'[p] = exc[p]
        ]_vars

\* the first attempt of an acquisition with a retry has failed and the
\* holder has released the inode since (the retry will find it unlocked),
\* while the acquiring process is itself inside a with block
C18_Witness ==
    \E p \in Procs :
        /\ Acquiring(p) /\ acq[p].attempts = 1
        /\ \A r \in locks : r.inode # acq[p].inode
        /\ scopes[p] # <<>>

====
